---- MODULE Spec2Model ----
(***************************************************************************)
(* ramiServer: an Express application over two MongoDB collections,        *)
(* user_infos and todos.  Every request handler is an async function; it   *)
(* runs to its next await in one step, and the store executes one query    *)
(* at a time.  A request in flight is a slot of req with the handler's     *)
(* position (pc) and its local variables.                                  *)
(***************************************************************************)
EXTENDS Integers, FiniteSets, Sequences, TLC

\* ---------------------------------------------------------------- bounds
MaxUsers == 2
MaxTodos == 2
MaxClock == 1

\* JWT_ACCESS_TOKEN_EXPIRES_IN, in clock ticks
ExpiresIn == 1

\* the requests in flight at one time
Reqs == {1, 2}

\* ------------------------------------------------------- request inputs
\* "" stands for an absent or empty (falsy) field of a request
Emails == {"", "a@x.io", "b@x.io"}
Passwords == {"", "p1", "p2"}
Usernames == {"", "u"}
Contents == {"", "milk"}
\* the content of an update
NewContents == {"", "eggs"}
\* a createdTime string a client can put in a request body
ClientTime == "1999-01-01"

\* ObjectIds are 1, 2, ...; 0 is used for "absent", and MalformedId for a
\* path segment that is not a 24-digit hex string
MalformedId == -1

VARIABLES users, todos, options, clock, nextUserId, nextTodoId, req

vars == <<users, todos, options, clock, nextUserId, nextTodoId, req>>

\* ---------------------------------------------------------------- values
NoUser == [_id |-> 0, email |-> "", password |-> "", username |-> "", createdTime |-> ""]
NoTodo == [_id |-> 0, content |-> "", createdTime |-> "", userId |-> 0]
NoToken == [iss |-> "", aud |-> "", sub |-> 0, iat |-> 0, exp |-> 0, sig |-> "none"]
NoBody == [content |-> "", createdTime |-> "", userId |-> 0]

Idle ==
  [op |-> "none", pc |-> "idle", email |-> "", password |-> "", username |-> "",
   token |-> NoToken, id |-> 0, body |-> NoBody, sub |-> 0,
   user |-> NoUser, todo |-> NoTodo,
   status |-> 0, msg |-> "", accessToken |-> NoToken, list |-> {}]

\* crypto.createHash('sha512').update(password).digest('base64'): a
\* deterministic, unsalted, collision-free digest of the password
createHashedPassword(password) == "sha512:" \o password

\* utils/dateUtils getFormattedDate(): the server's clock as a string
getFormattedDate(t) == IF t = 0 THEN "2023-07-29 00" ELSE IF t = 1 THEN "2023-07-29 01"
                       ELSE IF t = 2 THEN "2023-07-29 02" ELSE "2023-07-29 03"

\* mongoose.Types.ObjectId.isValid(todoId)
ObjectIdIsValid(id) == id # MalformedId

\* jwt.sign(payload, secret, {expiresIn}): a copy of the payload with iat
\* and exp added, signed with the server's secret
jwtSign(payload, t) ==
  [iss |-> payload.iss, aud |-> payload.aud, sub |-> payload.sub,
   iat |-> t, exp |-> t + ExpiresIn, sig |-> "server"]

\* middlewares/authorization verifyToken: signature, issuer, audience and
\* expiry of the bearer token; no store access
verifyToken(token, t) ==
  /\ token.sig = "server"
  /\ token.iss = "ramiServer"
  /\ token.aud = "ramiClient"
  /\ t < token.exp

\* ------------------------------------------------------------------ Init
Init ==
  /\ users = {}
  /\ todos = {}
  /\ options = [iss |-> "ramiServer", aud |-> "ramiClient", sub |-> 0]
  /\ clock = 0
  /\ nextUserId = 1
  /\ nextTodoId = 1
  /\ req = [r \in Reqs |-> Idle]

Free(r) == req[r].pc \in {"idle", "done"}

\* res.status(code).json(...): the handler ends and its locals are dropped;
\* the slot keeps the response, with the bearer token of the request, until
\* the slot is used again
Respond(cur, code, message) ==
  [Idle EXCEPT !.op = cur.op, !.pc = "done", !.status = code, !.msg = message,
               !.token = cur.token]

\* the time passes
Tick ==
  /\ clock < MaxClock
  /\ clock' = clock + 1
  /\ UNCHANGED <<users, todos, options, nextUserId, nextTodoId, req>>

\* ------------------------------------------------- POST /public/login
LoginRecv(r, email, password) ==
  /\ Free(r)
  /\ LET cur == [Idle EXCEPT !.op = "login", !.email = email, !.password = password]
     IN req' = [req EXCEPT ![r] =
                  IF email = "" \/ password = ""
                    THEN Respond(cur, 400, "Bad request")
                    ELSE [cur EXCEPT !.pc = "login_find"]]
  /\ UNCHANGED <<users, todos, options, clock, nextUserId, nextTodoId>>

\* UserInfo.findOne({email, password: createHashedPassword(password)})
LoginMatchesEmailOnly(store, email, password) == {u \in store : u.email = email}
LoginMatches(store, email, password) ==
  {u \in store : u.email = email /\ u.password = createHashedPassword(password)}

LoginFind(r) ==
  /\ req[r].pc = "login_find"
  /\ LET m == LoginMatches(users, req[r].email, req[r].password)
     IN IF m = {}
          THEN req' = [req EXCEPT ![r].pc = "login_sign", ![r].user = NoUser]
          ELSE \E u \in m : req' = [req EXCEPT ![r].pc = "login_sign", ![r].user = u]
  /\ UNCHANGED <<users, todos, options, clock, nextUserId, nextTodoId>>

\* options.sub = user._id, on the module's one options object
LoginClaimsStale(opts, user) == opts
LoginClaims(opts, user) == [opts EXCEPT !.sub = user._id]

\* the handler resumes with the result of findOne: it writes the subject
\* into options and signs options before it yields again
LoginRespond(r) ==
  /\ req[r].pc = "login_sign"
  /\ IF req[r].user # NoUser
       THEN /\ options' = LoginClaims(options, req[r].user)
            /\ LET token == jwtSign(options', clock)
               IN req' = [req EXCEPT ![r] =
                       [Respond(req[r], 200, "accessToken") EXCEPT !.accessToken = token]]
       ELSE /\ req' = [req EXCEPT ![r] = Respond(req[r], 401, "Invalid credentials")]
            /\ UNCHANGED options
  /\ UNCHANGED <<users, todos, clock, nextUserId, nextTodoId>>

\* ------------------------------------------------ POST /public/sign-up
InSignUp == {r \in Reqs : req[r].pc = "signup_find"}

SignUpRecv(r, email, password, username) ==
  /\ Free(r)
  /\ nextUserId + Cardinality(InSignUp) <= MaxUsers
  /\ LET cur == [Idle EXCEPT !.op = "signup", !.email = email,
                             !.password = password, !.username = username]
     IN req' = [req EXCEPT ![r] =
                  IF email = "" \/ password = "" \/ username = ""
                    THEN Respond(cur, 400, "Bad request")
                    ELSE [cur EXCEPT !.pc = "signup_find"]]
  /\ UNCHANGED <<users, todos, options, clock, nextUserId, nextTodoId>>

\* UserInfo.findOne({email})
FindByEmailWrongField(store, email) == {u \in store : u.username = email}
FindByEmail(store, email) == {u \in store : u.email = email}

\* new UserInfo({email, password: createHashedPassword(password), username,
\*               createdTime: getFormattedDate()})
NewUserInfo(id, email, password, username, t) ==
  [_id |-> id, email |-> email, password |-> createHashedPassword(password),
   username |-> username, createdTime |-> getFormattedDate(t)]

\* the store answers findOne and the handler runs on to save()
SignUpFind(r) ==
  /\ req[r].pc = "signup_find"
  /\ IF FindByEmail(users, req[r].email) # {}
       THEN /\ req' = [req EXCEPT ![r] =
                  Respond(req[r], 400, "Bad request or user with this email already exists")]
            /\ UNCHANGED nextUserId
       ELSE /\ req' = [req EXCEPT ![r].pc = "signup_save",
                         ![r].user = NewUserInfo(nextUserId, req[r].email, req[r].password,
                                                 req[r].username, clock)]
            /\ nextUserId' = nextUserId + 1
  /\ UNCHANGED <<users, todos, options, clock, nextTodoId>>

\* new UserInfo(user).save(): the collection has no unique index on email
SaveUser(store, user) == store \cup {user}

SignUpSave(r) ==
  /\ req[r].pc = "signup_save"
  /\ users' = SaveUser(users, req[r].user)
  /\ req' = [req EXCEPT ![r] = Respond(req[r], 201, "Created")]
  /\ UNCHANGED <<todos, options, clock, nextUserId, nextTodoId>>

\* ------------------------------------------- inputs of the /private routes
\* the request bodies of POST /private: content, and optionally the fields
\* userId and createdTime of the schema (0 and "" when absent)
Bodies ==
  {[NoBody EXCEPT !.content = c] : c \in Contents}
  \cup {[content |-> c, userId |-> 1, createdTime |-> ClientTime] : c \in Contents}

\* the path segment :id
PathIds == {MalformedId} \cup (1..MaxTodos)

\* the two users that are registered when the todo routes are exercised
Registered == {1, 2}

\* the tokens of their sessions, opened at time 0
SessionTokens ==
  {jwtSign([iss |-> "ramiServer", aud |-> "ramiClient", sub |-> u], 0) : u \in Registered}

\* a token signed with another key
ForgedToken ==
  [iss |-> "ramiServer", aud |-> "ramiClient", sub |-> 1, iat |-> 0,
   exp |-> MaxClock + ExpiresIn + 1, sig |-> "forged"]

\* what a client can put in the Authorization header
ClientTokens == SessionTokens \cup {ForgedToken}

\* the gate in front of every /private route: 401, or res.locals.sub is set
Gate(cur, next) ==
  IF verifyToken(cur.token, clock)
    THEN [next EXCEPT !.sub = cur.token.sub]
    ELSE Respond(cur, 401, "Unauthorized")

\* --------------------------------------------------- GET /private
ListRecv(r, token) ==
  /\ Free(r)
  /\ LET cur == [Idle EXCEPT !.op = "list", !.token = token]
     IN req' = [req EXCEPT ![r] = Gate(cur, [cur EXCEPT !.pc = "list_find"])]
  /\ UNCHANGED <<users, todos, options, clock, nextUserId, nextTodoId>>

\* Todo.find({userId})
FindTodosAll(store, userId) == store
FindTodos(store, userId) == {t \in store : t.userId = userId}

ListFind(r) ==
  /\ req[r].pc = "list_find"
  /\ LET found == FindTodos(todos, req[r].sub)
     IN req' = [req EXCEPT ![r] =
                  IF found = {}
                    THEN Respond(req[r], 404, "Not Found")
                    ELSE [Respond(req[r], 200, "todos") EXCEPT !.list = found]]
  /\ UNCHANGED <<users, todos, options, clock, nextUserId, nextTodoId>>

\* --------------------------------------------------- POST /private
\* if (!content)
ContentMissingNever(content) == FALSE
ContentMissing(content) == content = ""

\* new Todo(req.body): the fields of the body that the schema knows
NewTodo(id, body) ==
  [_id |-> id, content |-> body.content, createdTime |-> body.createdTime,
   userId |-> body.userId]

\* todo.userId = userId; todo.createdTime = getFormattedDate()
StampTodoMerged(todo, userId, t) ==
  [todo EXCEPT !.userId = IF todo.userId = 0 THEN userId ELSE todo.userId,
               !.createdTime = IF todo.createdTime = "" THEN getFormattedDate(t)
                               ELSE todo.createdTime]
StampTodo(todo, userId, t) ==
  [todo EXCEPT !.userId = userId, !.createdTime = getFormattedDate(t)]

CreateRecv(r, token, body) ==
  /\ Free(r)
  /\ (verifyToken(token, clock) /\ body.content # "") => nextTodoId <= MaxTodos
  /\ LET cur == [Idle EXCEPT !.op = "create", !.token = token, !.body = body]
         gated == Gate(cur, cur)
     IN IF gated.pc = "done"
          THEN req' = [req EXCEPT ![r] = gated] /\ UNCHANGED nextTodoId
        ELSE IF ContentMissing(body.content)
          THEN req' = [req EXCEPT ![r] = Respond(cur, 400, "Bad Request")]
               /\ UNCHANGED nextTodoId
        ELSE /\ req' = [req EXCEPT ![r] =
                   [gated EXCEPT !.pc = "create_save",
                                 !.todo = StampTodo(NewTodo(nextTodoId, body), gated.sub, clock)]]
             /\ nextTodoId' = nextTodoId + 1
  /\ UNCHANGED <<users, todos, options, clock, nextUserId>>

\* todo.save()
CreateSave(r) ==
  /\ req[r].pc = "create_save"
  /\ todos' = todos \cup {req[r].todo}
  /\ req' = [req EXCEPT ![r] = Respond(req[r], 201, "Created")]
  /\ UNCHANGED <<users, options, clock, nextUserId, nextTodoId>>

\* --------------------------------------------------- getTodo
\* the synchronous part of getTodo: the id of the path is checked
GetTodoRecv(cur, pc) ==
  LET gated == Gate(cur, cur)
  IN IF gated.pc = "done" THEN gated
     ELSE IF ~ObjectIdIsValid(cur.id) THEN Respond(cur, 415, "Unsupported Media Type")
     ELSE [gated EXCEPT !.pc = pc]

\* res.todo = todo: of the document the handlers read only _id
ResTodo(t) == [NoTodo EXCEPT !._id = t._id]

\* Todo.findById(todoId)
FindById(store, id) == {t \in store : t._id = id}

\* --------------------------------------------------- PATCH /private/todos/:id
PatchRecv(r, token, id, content) ==
  /\ Free(r)
  /\ LET cur == [Idle EXCEPT !.op = "patch", !.token = token, !.id = id,
                             !.body = [NoBody EXCEPT !.content = content]]
     IN req' = [req EXCEPT ![r] = GetTodoRecv(cur, "patch_get")]
  /\ UNCHANGED <<users, todos, options, clock, nextUserId, nextTodoId>>

\* the store answers findById; getTodo sets res.todo and calls the handler,
\* which checks the content and calls updateMany
PatchGet(r) ==
  /\ req[r].pc = "patch_get"
  /\ LET found == FindById(todos, req[r].id)
     IN IF found = {}
          THEN req' = [req EXCEPT ![r] = Respond(req[r], 404, "Not Found")]
          ELSE \E t \in found :
                 req' = [req EXCEPT ![r] =
                   IF ContentMissing(req[r].body.content)
                     THEN Respond(req[r], 400, "Bad Request")
                     ELSE [req[r] EXCEPT !.pc = "patch_update", !.todo = ResTodo(t)]]
  /\ UNCHANGED <<users, todos, options, clock, nextUserId, nextTodoId>>

\* Todo.updateMany({_id: todo._id}, {$set: {content}})
UpdateMany(store, id, content) ==
  {IF t._id = id THEN [t EXCEPT !.content = content] ELSE t : t \in store}

PatchUpdate(r) ==
  /\ req[r].pc = "patch_update"
  /\ todos' = UpdateMany(todos, req[r].todo._id, req[r].body.content)
  /\ req' = [req EXCEPT ![r] = Respond(req[r], 200, "OK")]
  /\ UNCHANGED <<users, options, clock, nextUserId, nextTodoId>>

\* --------------------------------------------------- DELETE /private/todos/:id
DeleteRecv(r, token, id) ==
  /\ Free(r)
  /\ LET cur == [Idle EXCEPT !.op = "delete", !.token = token, !.id = id]
     IN req' = [req EXCEPT ![r] = GetTodoRecv(cur, "delete_get")]
  /\ UNCHANGED <<users, todos, options, clock, nextUserId, nextTodoId>>

DeleteGet(r) ==
  /\ req[r].pc = "delete_get"
  /\ LET found == FindById(todos, req[r].id)
     IN IF found = {}
          THEN req' = [req EXCEPT ![r] = Respond(req[r], 404, "Not Found")]
          ELSE \E t \in found :
                 req' = [req EXCEPT ![r].pc = "delete_one", ![r].todo = ResTodo(t)]
  /\ UNCHANGED <<users, todos, options, clock, nextUserId, nextTodoId>>

\* res.todo.deleteOne()
DeleteOne(store, id) == {t \in store : t._id # id}

DeleteTodo(r) ==
  /\ req[r].pc = "delete_one"
  /\ todos' = DeleteOne(todos, req[r].todo._id)
  /\ req' = [req EXCEPT ![r] = Respond(req[r], 200, "OK")]
  /\ UNCHANGED <<users, options, clock, nextUserId, nextTodoId>>

\* --------------------------------------------------- DELETE /private/delete-account
DeleteAccountRecv(r, token) ==
  /\ Free(r)
  /\ LET cur == [Idle EXCEPT !.op = "delete_account", !.token = token]
     IN req' = [req EXCEPT ![r] = Gate(cur, [cur EXCEPT !.pc = "account_user"])]
  /\ UNCHANGED <<users, todos, options, clock, nextUserId, nextTodoId>>

\* UserInfo.findByIdAndDelete(userId)
DeleteAccountUser(r) ==
  /\ req[r].pc = "account_user"
  /\ users' = {u \in users : u._id # req[r].sub}
  /\ req' = [req EXCEPT ![r].pc = "account_todos"]
  /\ UNCHANGED <<todos, options, clock, nextUserId, nextTodoId>>

\* Todo.deleteMany({userId})
DeleteMany(store, userId) == {t \in store : t.userId # userId}

DeleteAccountTodos(r) ==
  /\ req[r].pc = "account_todos"
  /\ todos' = DeleteMany(todos, req[r].sub)
  /\ req' = [req EXCEPT ![r] = Respond(req[r], 200, "Account deleted successfully")]
  /\ UNCHANGED <<users, options, clock, nextUserId, nextTodoId>>

\* ------------------------------------------------------ specifications
\* the server after the sign-ups and the logins of the two users at time 0,
\* one after the other
TodoInit ==
  /\ users = {NewUserInfo(u, IF u = 1 THEN "a@x.io" ELSE "b@x.io", "p1", "u", 0) :
                u \in Registered}
  /\ todos = {}
  /\ options = [iss |-> "ramiServer", aud |-> "ramiClient", sub |-> 2]
  /\ clock = 0
  /\ nextUserId = 3
  /\ nextTodoId = 1
  /\ req = [r \in Reqs |-> Idle]

\* the routes of the todos router, called with the session tokens
TodoNext ==
  \/ \E r \in Reqs, k \in SessionTokens : ListRecv(r, k)
  \/ \E r \in Reqs : ListFind(r)
  \/ \E r \in Reqs, k \in SessionTokens, b \in Bodies : CreateRecv(r, k, b)
  \/ \E r \in Reqs : CreateSave(r)
  \/ \E r \in Reqs, k \in SessionTokens, i \in PathIds, c \in NewContents :
        PatchRecv(r, k, i, c)
  \/ \E r \in Reqs : PatchGet(r)
  \/ \E r \in Reqs : PatchUpdate(r)
  \/ \E r \in Reqs, k \in SessionTokens, i \in PathIds : DeleteRecv(r, k, i)
  \/ \E r \in Reqs : DeleteGet(r)
  \/ \E r \in Reqs : DeleteTodo(r)

SpecTodo == TodoInit /\ [][TodoNext]_vars

\* account deletion, next to the creation and the listing of todos, while
\* the time passes and with any token a client can present
AccountNext ==
  \/ Tick
  \/ \E r \in Reqs, k \in ClientTokens : ListRecv(r, k)
  \/ \E r \in Reqs : ListFind(r)
  \/ \E r \in Reqs, k \in ClientTokens, b \in Bodies : CreateRecv(r, k, b)
  \/ \E r \in Reqs : CreateSave(r)
  \/ \E r \in Reqs, k \in ClientTokens : DeleteAccountRecv(r, k)
  \/ \E r \in Reqs : DeleteAccountUser(r)
  \/ \E r \in Reqs : DeleteAccountTodos(r)

SpecAccount == TodoInit /\ [][AccountNext]_vars

\* the routes of the auth router that need no token
AuthNext ==
  \/ Tick
  \/ \E r \in Reqs, e \in Emails, p \in Passwords : LoginRecv(r, e, p)
  \/ \E r \in Reqs : LoginFind(r)
  \/ \E r \in Reqs : LoginRespond(r)
  \/ \E r \in Reqs, e \in Emails, p \in Passwords, n \in Usernames : SignUpRecv(r, e, p, n)
  \/ \E r \in Reqs : SignUpFind(r)
  \/ \E r \in Reqs : SignUpSave(r)

SpecAuth == Init /\ [][AuthNext]_vars

\* ================================================================ claims
\* r's handler takes a step that ends with a response
Responds(r) == req[r].pc \notin {"idle", "done"} /\ req'[r].pc = "done"
\* a request arrives in slot r
Arrives(r, op) == Free(r) /\ req'[r] # req[r] /\ req'[r].op = op

\* C1: no two user records have the same email, whatever the interleaving
\* of sign-up requests.
EmailUnique == \A u, v \in users : u.email = v.email => u = v

\* C2: a sign-up whose email is registered when its existence check runs is
\* answered 400, creates no user record and leaves every record as it was.
SignUpRejectsRegistered ==
  [][\A r \in Reqs :
       (/\ req[r].pc = "signup_find"
        /\ req'[r] # req[r]
        /\ \E u \in users : u.email = req[r].email)
       => /\ req'[r].pc = "done"
          /\ req'[r].status = 400
          /\ users' = users
          /\ nextUserId' = nextUserId]_vars

SignUpRejectedSeen ==
  \E r \in Reqs :
    /\ req[r].op = "signup"
    /\ req[r].status = 400
    /\ req[r].msg = "Bad request or user with this email already exists"
    /\ users # {}

\* C3: a login that responds 200 returns a server-signed token whose subject
\* is the _id of the user that findOne matched for this request's email and
\* password, also when other logins write options.sub in between.
LoginTokenSubject ==
  [][\A r \in Reqs :
       (req[r].op = "login" /\ Responds(r) /\ req'[r].status = 200)
       => /\ req[r].user # NoUser
          /\ req[r].user.email = req[r].email
          /\ req[r].user.password = createHashedPassword(req[r].password)
          /\ req'[r].accessToken.sub = req[r].user._id
          /\ req'[r].accessToken.sig = "server"]_vars

\* a login has answered with its own subject while the login of another
\* user, already matched, waits to write options.sub
ConcurrentLoginsSeen ==
  \E r, q \in Reqs :
    /\ req[r].op = "login" /\ req[r].status = 200
    /\ req[q].pc = "login_sign" /\ req[q].user # NoUser
    /\ req[q].user._id # req[r].accessToken.sub
    /\ options.sub = req[r].accessToken.sub

\* C4: a login whose password is the password of no user with that email
\* finds no user, and is answered 401 "Invalid credentials" without a token
\* and without a change of the store: the response is one constant, the same
\* whether or not the email is registered.
WrongPassword(r) ==
  ~\E u \in users :
      u.email = req[r].email /\ u.password = createHashedPassword(req[r].password)

LoginWrongPasswordUniform ==
  [][\A r \in Reqs :
       /\ (req[r].pc = "login_find" /\ req'[r] # req[r] /\ WrongPassword(r))
            => req'[r].pc = "login_sign" /\ req'[r].user = NoUser
       /\ (req[r].pc = "login_sign" /\ req[r].user = NoUser /\ req'[r] # req[r])
            => /\ req'[r].pc = "done"
               /\ req'[r].status = 401
               /\ req'[r].msg = "Invalid credentials"
               /\ req'[r].accessToken = NoToken
               /\ users' = users
               /\ options' = options]_vars

\* two failed lookups wait to answer: one for a registered email with a
\* wrong password, one for an email that is not registered
WrongPasswordBothSeen ==
  \E r, q \in Reqs :
    /\ req[r].pc = "login_sign" /\ req[r].user = NoUser
    /\ \E u \in users : u.email = req[r].email
    /\ req[q].pc = "login_sign" /\ req[q].user = NoUser
    /\ ~\E u \in users : u.email = req[q].email

\* C5: a create request with a verified token either is answered 400 and
\* stores nothing, or goes on with a non-empty content; the todo it saves
\* has the subject of the token as its userId and the server's time as its
\* createdTime, whatever userId and createdTime the body carries.
CreateOwnerAndTime ==
  [][\A r \in Reqs :
       /\ (Arrives(r, "create") /\ verifyToken(req'[r].token, clock))
            => /\ todos' = todos
               /\ IF req'[r].pc = "done"
                    THEN req'[r].status = 400
                    ELSE /\ req'[r].pc = "create_save"
                         /\ req'[r].body.content # ""
                         /\ req'[r].todo.content = req'[r].body.content
                         /\ req'[r].todo.userId = req'[r].token.sub
                         /\ req'[r].todo.createdTime = getFormattedDate(clock)
       /\ (req[r].op = "create" /\ Responds(r))
            => /\ req'[r].status = 201
               /\ todos' = todos \cup {req[r].todo}
               /\ req[r].todo.userId = req[r].token.sub
               /\ req[r].todo.createdTime # ClientTime
               /\ req[r].todo.content # ""]_vars

\* a todo was saved for a request whose body named another owner and a
\* creation time
CreateOverrideSeen ==
  \E r \in Reqs, t \in todos :
    /\ req[r].pc = "create_save"
    /\ req[r].body.userId \notin {0, req[r].token.sub}
    /\ req[r].body.createdTime = ClientTime
    /\ req[r].todo.userId = req[r].token.sub
    /\ t.userId = req[r].token.sub

\* C6: no update or delete by a caller other than the owner changes or
\* removes a todo, and no list response holds a todo of another owner.
OwnerOnly ==
  [][\A r \in Reqs :
       /\ (req[r].op \in {"patch", "delete"} /\ Responds(r))
            => \A t \in todos : t.userId # req[r].token.sub => t \in todos'
       /\ (req[r].op = "list" /\ Responds(r))
            => \A t \in req'[r].list : t.userId = req[r].token.sub]_vars

\* C7: once a delete-account request of user u has been answered 200, the
\* store holds no todo whose userId is u.
NoTodosAfterAccountDeleted ==
  \A r \in Reqs :
    (req[r].op = "delete_account" /\ req[r].pc = "done" /\ req[r].status = 200)
    => ~\E t \in todos : t.userId = req[r].token.sub

\* C8: once a delete-account request of user u has been answered 200, every
\* protected request that arrives with u's unexpired token is answered 401
\* and goes no further.
TokenDeadAfterAccountDeleted ==
  [][\A r, q \in Reqs :
       (/\ req[r].op = "delete_account" /\ req[r].pc = "done" /\ req[r].status = 200
        /\ q # r
        /\ Free(q) /\ req'[q] # req[q]
        /\ req'[q].op \in {"list", "create", "delete_account"}
        /\ req'[q].token = req[r].token
        /\ clock < req[r].token.exp)
       => req'[q].pc = "done" /\ req'[q].status = 401]_vars

\* C9: list-mine answers 200 with exactly the stored todos whose userId is
\* the caller's, or 404 when there is none, and changes no store.
ListMineExact ==
  [][\A r \in Reqs :
       (req[r].op = "list" /\ Responds(r))
       => LET own == {t \in todos : t.userId = req[r].token.sub}
          IN /\ IF own = {}
                  THEN req'[r].status = 404 /\ req'[r].list = {}
                  ELSE req'[r].status = 200 /\ req'[r].list = own
             /\ todos' = todos
             /\ users' = users]_vars

\* a 200 list that leaves out a stored todo of another owner
ListMineSeen ==
  \E r \in Reqs :
    /\ req[r].op = "list" /\ req[r].status = 200
    /\ req[r].list # {}
    /\ req[r].list # todos
    /\ req[r].list = {t \in todos : t.userId = req[r].token.sub}

\* C10: an update with empty content whose id names a stored todo is
\* answered 400 and changes no todo.
PatchEmptyRejected ==
  [][\A r \in Reqs :
       (/\ req[r].pc = "patch_get"
        /\ req'[r] # req[r]
        /\ req[r].body.content = ""
        /\ \E t \in todos : t._id = req[r].id)
       => /\ req'[r].pc = "done"
          /\ req'[r].status = 400
          /\ todos' = todos]_vars

\* an update was answered 400 while two todos are stored
PatchEmptySeen ==
  \E r \in Reqs :
    /\ req[r].op = "patch" /\ req[r].status = 400
    /\ Cardinality(todos) = MaxTodos

\* C11: when an update with non-empty content is answered 200, the store
\* holds the todo of the targeted id with the supplied content and with its
\* _id, userId and createdTime as before, and every other todo is as it
\* was; also when a delete of the same todo ran after getTodo found it.
PatchUpdatesInPlace ==
  [][\A r \in Reqs :
       (req[r].op = "patch" /\ Responds(r) /\ req'[r].status = 200)
       => /\ req[r].body.content # ""
          /\ \E t \in todos :
               /\ t._id = req[r].id
               /\ [t EXCEPT !.content = req[r].body.content] \in todos'
          /\ \A t \in todos : t._id # req[r].id => t \in todos'
          /\ \A t \in todos' : t._id # req[r].id => t \in todos]_vars
====
